---- MODULE Spec2Model ----
(***************************************************************************)
(* KotlinCodeGenerator (atcodertools/codegen/code_generators/kotlin.py).   *)
(*                                                                         *)
(* A text is a sequence of tokens: every literal piece of a Python format  *)
(* string is one token, every substituted value (a name, a length          *)
(* expression, a type name) is one token, and every whitespace character   *)
(* of an indentation is one token.  String concatenation is \o.            *)
(***************************************************************************)
EXTENDS Integers, Sequences, FiniteSets

VARIABLES format, config, pc, idx, formal_arguments, actual_arguments, rendered, result

vars == <<format, config, pc, idx, formal_arguments, actual_arguments, rendered, result>>

(* ------------------------------ bounds -------------------------------- *)

\* most Patterns in a Format
MaxPatterns == 2

\* most Variables in a Format, over all its Patterns
MaxVars == 3

(* ------------------------- generic text helpers ----------------------- *)

RECURSIVE Concat(_)
\* sum(list_of_lists, []): the lists one after the other
Concat(ss) == IF ss = <<>> THEN <<>> ELSE Head(ss) \o Concat(Tail(ss))

RECURSIVE Join(_, _)
\* sep.join(parts)
Join(sep, parts) ==
    IF parts = <<>> THEN <<>>
    ELSE IF Len(parts) = 1 THEN parts[1]
    ELSE parts[1] \o sep \o Join(sep, Tail(parts))

(* ------------------- the models the generator consumes ---------------- *)

\* Type enum: float, int, str
Types == {"float", "int", "str"}

\* an absent Index (None)
NoIndex == [is_none |-> TRUE, length |-> ""]

\* an Index whose get_length() prints as l
Index(l) == [is_none |-> FALSE, length |-> l]

\* Index.get_length()
get_length(index) == index.length

\* Variable.dim_num(): the number of indices that are not None.  third_index is
\* None for every Variable the prediction step builds; a Variable carrying one
\* is the out-of-contract Variable with three dimensions.
dim_num(var) ==
    (IF var.first_index.is_none THEN 0 ELSE 1)
    + (IF var.second_index.is_none THEN 0 ELSE 1)
    + (IF var.third_index.is_none THEN 0 ELSE 1)

\* Pattern.all_vars()
pattern_all_vars(pattern) == pattern.vars

\* Format.all_vars(): every Pattern's variables, in Format order
all_vars(fmt) == Concat([k \in 1..Len(fmt.sequence) |-> pattern_all_vars(fmt.sequence[k])])

\* CodeStyleConfig.indent(depth)
indent(depth) ==
    [k \in 1..(config.indent_width * depth) |->
        IF config.indent_type = "space" THEN " " ELSE "\t"]

\* Optional[Format]: None
None == [is_none |-> TRUE, sequence |-> <<>>]

\* Optional[Format]: a Format holding the Patterns seq
Format(seq) == [is_none |-> FALSE, sequence |-> seq]

(* ------------------------------ inputs -------------------------------- *)

\* the variables the inputs are built from: a name, a type, and whether the variable
\* keeps the contract (dim_num() <= 2) or is the out-of-contract Variable of three
\* dimensions.  A name may occur more than once in a Format.
VarChoices ==
    { [name |-> "N", type |-> "int", out_of_contract |-> FALSE],
      [name |-> "A", type |-> "float", out_of_contract |-> FALSE],
      [name |-> "S", type |-> "str", out_of_contract |-> FALSE],
      [name |-> "T", type |-> "int", out_of_contract |-> TRUE] }

\* the Pattern variants: the three the generator knows and one it does not
Kinds == {"SingularPattern", "ParallelPattern", "TwoDimensionalPattern", "OtherPattern"}

\* dimensions of the variables of a Pattern of each variant
KindDims(kind) ==
    CASE kind = "SingularPattern" -> 0
      [] kind = "ParallelPattern" -> 1
      [] kind = "TwoDimensionalPattern" -> 2
      [] OTHER -> 1

\* the length expressions of the indices, one triple per Pattern position, so that no
\* two Patterns of a Format share a length
Lengths ==
    << <<"H1", "W1", "D1">>, <<"H2", "W2", "D2">>, <<"H3", "W3", "D3">>, <<"H4", "W4", "D4">> >>

\* the lengths of the p-th Pattern
LengthsAt(p) == Lengths[((p - 1) % Len(Lengths)) + 1]

\* Variable(name, first_index, second_index, type) with d dimensions, of the lengths ls
MkVar(c, d, ls) ==
    [name |-> c.name, type |-> c.type,
     first_index |-> IF d >= 1 THEN Index(ls[1]) ELSE NoIndex,
     second_index |-> IF d >= 2 THEN Index(ls[2]) ELSE NoIndex,
     third_index |-> IF d >= 3 THEN Index(ls[3]) ELSE NoIndex]

RECURSIVE Sum(_)
\* the sum of a sequence of numbers
Sum(ns) == IF ns = <<>> THEN 0 ELSE Head(ns) + Sum(Tail(ns))

\* the Format of Len(sizes) Patterns whose p-th Pattern is of variant kinds[p] and holds
\* sizes[p] variables, cs listing the choices of all variables in Format order.  The
\* variables of a Pattern share the variant's dimensions and index lengths.
FormatOf(sizes, kinds, cs) ==
    Format([p \in 1..Len(sizes) |->
              [kind |-> kinds[p],
               vars |-> [k \in 1..sizes[p] |->
                           LET c == cs[Sum(SubSeq(sizes, 1, p - 1)) + k]
                           IN  MkVar(c, IF c.out_of_contract THEN 3 ELSE KindDims(kinds[p]), LengthsAt(p))]]])

\* a SingularPattern holds exactly one variable
WellFormed(sizes, kinds) ==
    /\ Sum(sizes) <= MaxVars
    /\ \A p \in 1..Len(sizes) : kinds[p] = "SingularPattern" => sizes[p] = 1

\* CodeStyleConfig: indent_type and indent_width
Configs ==
    { [indent_type |-> "space", indent_width |-> 2],
      [indent_type |-> "tab", indent_width |-> 1] }

(* ------------------------- KotlinCodeGenerator ------------------------ *)

\* what a method hands back: a value, or NotImplementedError raised
Returned(v) == [raised |-> FALSE, value |-> v]

Raised == [raised |-> TRUE, value |-> <<>>]

\* int as Kotlin's Int
_convert_type_int(type_) ==
    CASE type_ = "float" -> <<"Double">>
      [] type_ = "int" -> <<"Int">>
      [] type_ = "str" -> <<"String">>

\* _convert_type: type_ is a member of the closed enum Type, so the final
\* else (raise NotImplementedError) has no input
_convert_type(type_) ==
    CASE type_ = "float" -> <<"Double">>
      [] type_ = "int" -> <<"Long">>
      [] type_ = "str" -> <<"String">>

RECURSIVE ArrayOf(_, _)
\* for _ in range(n): variable_type = 'Array<{}>'.format(variable_type)
ArrayOf(variable_type, n) ==
    IF n = 0 THEN variable_type
    ELSE ArrayOf(<<"Array<">> \o variable_type \o <<">">>, n - 1)

\* an array type whatever the number of dimensions above zero
_get_declaration_type_flat(var) ==
    ArrayOf(_convert_type(var.type), IF dim_num(var) = 0 THEN 0 ELSE 1)

_get_declaration_type(var) == ArrayOf(_convert_type(var.type), dim_num(var))

\* ', '.join([v.name for v in self._format.all_vars()])
_actual_arguments ==
    Join(<<", ">>, [k \in 1..Len(all_vars(format)) |-> <<all_vars(format)[k].name>>])

\* ', '.join(['{name}: {decl_type}'.format(...) for v in self._format.all_vars()])
_formal_arguments ==
    Join(<<", ">>,
         [k \in 1..Len(all_vars(format)) |->
            <<all_vars(format)[k].name, ": ">> \o _get_declaration_type(all_vars(format)[k])])

\* as for _convert_type, the final else has no input
_get_default_value_for_type(type_) ==
    CASE type_ = "float" -> <<"0.0">>
      [] type_ = "int" -> <<"0L">>
      [] type_ = "str" -> <<"\"\"">>

RECURSIVE AllocateOver(_, _)
\* for dim in dims: declaration = 'Array(({}).toInt())'.format(dim.get_length()) + '{' + declaration + '}'
AllocateOver(declaration, dims) ==
    IF dims = <<>> THEN declaration
    ELSE AllocateOver(
            <<"Array((", get_length(Head(dims)), ").toInt())", "{">> \o declaration \o <<"}">>,
            Tail(dims))

\* the indices taken first to second
DeclarationDimsFirstToSecond(var) ==
    SelectSeq(<<var.first_index, var.second_index>>, LAMBDA n : ~n.is_none)

\* filter(lambda n: n is not None, [var.second_index, var.first_index])
DeclarationDims(var) ==
    SelectSeq(<<var.second_index, var.first_index>>, LAMBDA n : ~n.is_none)

\* no check of the number of dimensions
_generate_declaration_unchecked(var) ==
    IF dim_num(var) = 0
    THEN Returned(<<"var ", var.name, ": ">> \o _get_declaration_type(var))
    ELSE Returned(<<"val ", var.name, " = ">>
                  \o AllocateOver(_get_default_value_for_type(var.type),
                                  DeclarationDims(var)))

_generate_declaration(var) ==
    IF dim_num(var) > 2 THEN Raised
    ELSE IF dim_num(var) = 0
         THEN Returned(<<"var ", var.name, ": ">> \o _get_declaration_type(var))
         ELSE Returned(<<"val ", var.name, " = ">>
                       \o AllocateOver(_get_default_value_for_type(var.type),
                                       DeclarationDims(var)))

RECURSIVE Subscripts(_)
\* for index_variable in [...]: name += '[({}).toInt()]'.format(index_variable)
Subscripts(index_variables) ==
    IF index_variables = <<>> THEN <<>>
    ELSE <<"[(", Head(index_variables), ").toInt()]">> \o Subscripts(Tail(index_variables))

\* ['i', 'j'][:var.dim_num()]
_get_var_name(var) ==
    <<var.name>> \o Subscripts(SubSeq(<<"i", "j">>, 1, IF dim_num(var) < 2 THEN dim_num(var) ELSE 2))

_input_code_for_var(var) ==
    _get_var_name(var) \o
    (CASE var.type = "float" -> <<" = ", "sc.nextDouble()">>
       [] var.type = "int" -> <<" = ", "sc.nextLong()">>
       [] var.type = "str" -> <<" = ", "sc.next()">>)

\* the wrapped lines are not indented
_wrap_with_loop_flat(lines, loop_variable, length) ==
    <<<<"for (", loop_variable, " in 0 until ", length, ") {">>>>
    \o lines
    \o <<<<"}">>>>

_wrap_with_loop(lines, loop_variable, length) ==
    <<<<"for (", loop_variable, " in 0 until ", length, ") {">>>>
    \o [k \in 1..Len(lines) |-> indent(1) \o lines[k]]
    \o <<<<"}">>>>

\* only the representative variable is read
InputCodesRepresentativeOnly(pattern) ==
    <<_input_code_for_var(pattern_all_vars(pattern)[1])>>

\* [self._input_code_for_var(var) for var in pattern.all_vars()]
InputCodes(pattern) ==
    [k \in 1..Len(pattern_all_vars(pattern)) |-> _input_code_for_var(pattern_all_vars(pattern)[k])]

\* [self._generate_declaration(var) for var in pattern.all_vars()]
Declarations(pattern) ==
    [k \in 1..Len(pattern_all_vars(pattern)) |-> _generate_declaration(pattern_all_vars(pattern)[k])]

\* the if / elif chain of _render_pattern; a Pattern of no known variant falls through it
ReadLines(pattern) ==
    LET representative_var == pattern_all_vars(pattern)[1]
    IN  CASE pattern.kind = "SingularPattern" ->
               <<_input_code_for_var(representative_var)>>
          [] pattern.kind = "ParallelPattern" ->
               _wrap_with_loop(InputCodes(pattern), "i",
                               get_length(representative_var.first_index))
          [] pattern.kind = "TwoDimensionalPattern" ->
               _wrap_with_loop(
                   _wrap_with_loop(InputCodes(pattern), "j",
                                   get_length(representative_var.second_index)),
                   "i",
                   get_length(representative_var.first_index))
          [] OTHER -> <<>>

\* the reads are put before the declarations
_render_pattern_reads_first(pattern) ==
    IF \E k \in 1..Len(Declarations(pattern)) : Declarations(pattern)[k].raised
    THEN Raised
    ELSE Returned(ReadLines(pattern)
                  \o [k \in 1..Len(Declarations(pattern)) |-> Declarations(pattern)[k].value])

_render_pattern(pattern) ==
    IF \E k \in 1..Len(Declarations(pattern)) : Declarations(pattern)[k].raised
    THEN Raised
    ELSE Returned([k \in 1..Len(Declarations(pattern)) |-> Declarations(pattern)[k].value]
                  \o ReadLines(pattern))

\* joined by newlines alone
_input_part_newline_only == Join(<<"\n">>, Concat(rendered))

\* '\n{}'.format(self._config.indent(1)).join(lines), lines being sum(rendered, [])
_input_part == Join(<<"\n">> \o indent(1), Concat(rendered))

(* ------------------------------ behaviour ----------------------------- *)

\* no dict has been returned
NoResult == [k \in {} |-> TRUE]

Init ==
    /\ \/ format = None
       \/ \E np \in 0..MaxPatterns :
            \E sizes \in [1..np -> 1..MaxVars] :
              \E kinds \in [1..np -> Kinds] :
                /\ WellFormed(sizes, kinds)
                /\ \E cs \in [1..Sum(sizes) -> VarChoices] :
                      format = FormatOf(sizes, kinds, cs)
    /\ config \in Configs
    /\ pc = "constructed"
    /\ idx = 1
    /\ formal_arguments = <<>>
    /\ actual_arguments = <<>>
    /\ rendered = <<>>
    /\ result = NoResult

\* the absent Format reported as a success
GenerateParametersAbsentAsSuccess ==
    /\ pc = "constructed"
    /\ format.is_none
    /\ result' = [prediction_success |-> TRUE]
    /\ pc' = "returned"
    /\ UNCHANGED <<format, config, idx, formal_arguments, actual_arguments, rendered>>

\* generate_parameters, self._format is None: return dict(prediction_success=False)
GenerateParametersAbsent ==
    /\ pc = "constructed"
    /\ format.is_none
    /\ result' = [prediction_success |-> FALSE]
    /\ pc' = "returned"
    /\ UNCHANGED <<format, config, idx, formal_arguments, actual_arguments, rendered>>

\* generate_parameters, lines 24-25: formal_arguments=self._formal_arguments(),
\* actual_arguments=self._actual_arguments()
SignatureArguments ==
    /\ pc = "constructed"
    /\ ~format.is_none
    /\ formal_arguments' = _formal_arguments
    /\ actual_arguments' = _actual_arguments
    /\ pc' = "input_part"
    /\ UNCHANGED <<format, config, idx, rendered, result>>

\* _input_part, lines 32-33: the next Pattern of self._format.sequence is rendered
RenderPattern ==
    /\ pc = "input_part"
    /\ idx <= Len(format.sequence)
    /\ ~_render_pattern(format.sequence[idx]).raised
    /\ rendered' = Append(rendered, _render_pattern(format.sequence[idx]).value)
    /\ idx' = idx + 1
    /\ UNCHANGED <<format, config, pc, formal_arguments, actual_arguments, result>>

\* _render_pattern raises: NotImplementedError leaves generate_parameters, nothing is returned
RenderPatternRaises ==
    /\ pc = "input_part"
    /\ idx <= Len(format.sequence)
    /\ _render_pattern(format.sequence[idx]).raised
    /\ pc' = "raised"
    /\ UNCHANGED <<format, config, idx, formal_arguments, actual_arguments, rendered, result>>

\* lines 36 and 23-28: the lines are joined and the dict is returned
GenerateParametersReturn ==
    /\ pc = "input_part"
    /\ idx > Len(format.sequence)
    /\ result' = [formal_arguments |-> formal_arguments,
                  actual_arguments |-> actual_arguments,
                  input_part |-> _input_part,
                  prediction_success |-> TRUE]
    /\ pc' = "returned"
    /\ UNCHANGED <<format, config, idx, formal_arguments, actual_arguments, rendered>>

Next ==
    \/ GenerateParametersAbsent
    \/ SignatureArguments
    \/ RenderPattern
    \/ RenderPatternRaises
    \/ GenerateParametersReturn

Spec == Init /\ [][Next]_vars

(* ----------------------- reading the generated text -------------------- *)

KnownKinds == {"SingularPattern", "ParallelPattern", "TwoDimensionalPattern"}

IsWhitespace(tok) == tok \in {" ", "\t"}

RECURSIVE LeadingWhitespace(_)
\* how many whitespace characters a line starts with
LeadingWhitespace(line) ==
    IF line = <<>> \/ ~IsWhitespace(Head(line)) THEN 0
    ELSE 1 + LeadingWhitespace(Tail(line))

\* the whitespace a line starts with
Indentation(line) == SubSeq(line, 1, LeadingWhitespace(line))

\* the line without it
Stripped(line) == SubSeq(line, LeadingWhitespace(line) + 1, Len(line))

ReadCalls == {"sc.nextDouble()", "sc.nextLong()", "sc.next()"}

\* a read-assignment: <target> = <read call>
IsReadStatement(line) ==
    /\ Len(Stripped(line)) >= 3
    /\ Stripped(line)[Len(Stripped(line))] \in ReadCalls
    /\ Stripped(line)[Len(Stripped(line)) - 1] = " = "

\* a declaration: var <name>: <type>, or val <name> = <container>
IsDeclaration(line) ==
    /\ Len(Stripped(line)) >= 2
    /\ Stripped(line)[1] \in {"var ", "val "}

\* the name a declaration declares
DeclaredName(line) == Stripped(line)[2]

\* the name a read-assignment assigns to
ReadName(line) == Stripped(line)[1]

\* the header of a counted loop
IsLoopHeader(line) ==
    /\ Len(Stripped(line)) = 5
    /\ Stripped(line)[1] = "for ("
    /\ Stripped(line)[3] = " in 0 until "
    /\ Stripped(line)[5] = ") {"

LoopVariable(line) == Stripped(line)[2]

LoopLength(line) == Stripped(line)[4]

\* the closing delimiter of a loop
IsClose(line) == Stripped(line) = <<"}">>

\* the places of a sequence whose element passes Test
Places(seq, Test(_)) == {k \in 1..Len(seq) : Test(seq[k])}

\* generate_parameters has returned a dict for a present Format
ReturnedPresent == pc = "returned" /\ ~format.is_none

(* -------------------------------- claims ------------------------------ *)

\* C1: with an absent Format (None) generate_parameters raises nothing and returns
\* exactly {prediction_success: False}: the flag is false and formal_arguments,
\* actual_arguments and input_part are not keys of the result, under every style
\* configuration.
C1_AbsentFormatResult ==
    format.is_none =>
        /\ pc \in {"constructed", "returned"}
        /\ pc = "constructed" => ENABLED GenerateParametersAbsent
        /\ pc = "returned" =>
              /\ DOMAIN result = {"prediction_success"}
              /\ result.prediction_success = FALSE

C1_Witness ==
    /\ format.is_none
    /\ pc = "returned"
    /\ config.indent_type = "tab"

\* C3: for every Singular, Parallel or TwoDimensional Pattern rendered, the lines
\* _render_pattern returns hold as many read-assignments as the Pattern has
\* variables, the k-th of them assigning to the k-th variable, and as many
\* declaration lines.
C3_OneReadPerVariable ==
    \A p \in 1..Len(rendered) :
        LET pattern == format.sequence[p]
            n == Len(pattern_all_vars(pattern))
            reads == SelectSeq(rendered[p], IsReadStatement)
            decls == SelectSeq(rendered[p], IsDeclaration)
        IN  pattern.kind \in KnownKinds =>
              /\ Len(reads) = n
              /\ Len(decls) = n
              /\ \A k \in 1..n : ReadName(reads[k]) = pattern_all_vars(pattern)[k].name

C3_Witness ==
    \E p \in 1..Len(rendered) : \E q \in 1..Len(rendered) :
        /\ format.sequence[p].kind = "TwoDimensionalPattern"
        /\ Len(pattern_all_vars(format.sequence[p])) = 2
        /\ format.sequence[q].kind = "SingularPattern"

\* C6: rendering a Pattern that is none of Singular, Parallel, TwoDimensional fails:
\* _render_pattern never returns a list of lines for it.
C6_UnknownVariantNeverRendered ==
    \A p \in 1..Len(rendered) : format.sequence[p].kind \in KnownKinds

RECURSIVE Split(_, _)
\* the pieces of text between the occurrences of the token sep
Split(text, sep) ==
    IF \A k \in 1..Len(text) : text[k] # sep THEN <<text>>
    ELSE LET at == CHOOSE k \in 1..Len(text) :
                      text[k] = sep /\ \A j \in 1..(k - 1) : text[j] # sep
         IN  <<SubSeq(text, 1, at - 1)>> \o Split(SubSeq(text, at + 1, Len(text)), sep)

\* the entries of an argument list: none in the empty text
Entries(text) == IF text = <<>> THEN <<>> ELSE Split(text, ", ")

\* base wrapped n times in Array<...>
Wrapped(base, n) == [k \in 1..n |-> "Array<"] \o base \o [k \in 1..n |-> ">"]

\* the argument lists are as C2 says
ArgumentListsFollowAllVars(formal, actual) ==
    LET vs == all_vars(format)
        fe == Entries(formal)
        ae == Entries(actual)
    IN  /\ Len(fe) = Len(vs)
        /\ Len(ae) = Len(vs)
        /\ \A k \in 1..Len(vs) :
              /\ ae[k] = <<vs[k].name>>
              /\ fe[k] = <<vs[k].name, ": ">> \o Wrapped(_convert_type(vs[k].type), dim_num(vs[k]))

HasOutOfContractVariable ==
    /\ ~format.is_none
    /\ \E p \in 1..Len(format.sequence) :
          \E k \in 1..Len(pattern_all_vars(format.sequence[p])) :
              dim_num(pattern_all_vars(format.sequence[p])[k]) = 3

\* C5: if any variable of the Format has dim_num() = 3, generate_parameters fails
\* with the error _generate_declaration raises and returns no result: no key of
\* the dict is ever produced, wherever in the Format the variable is.
C5_ThreeDimensionsRaise ==
    HasOutOfContractVariable =>
        /\ DOMAIN result = {}
        /\ pc # "returned"
        /\ pc = "input_part" => idx <= Len(format.sequence)
        /\ pc = "raised" =>
              \E k \in 1..Len(pattern_all_vars(format.sequence[idx])) :
                  dim_num(pattern_all_vars(format.sequence[idx])[k]) = 3

C5_Witness ==
    /\ pc = "raised"
    /\ Len(rendered) = 1
    /\ Len(pattern_all_vars(format.sequence[2])) = 2
    /\ dim_num(pattern_all_vars(format.sequence[2])[1]) = 1
    /\ dim_num(pattern_all_vars(format.sequence[2])[2]) = 3

\* Format = [Singular(Variable("N", int, no index))]
Scenario1 ==
    Format(<<[kind |-> "SingularPattern",
              vars |-> <<[name |-> "N", type |-> "int", first_index |-> NoIndex,
                          second_index |-> NoIndex, third_index |-> NoIndex]>>]>>)

\* C7 as stated: for Scenario 1 under any style configuration the result is
\* prediction_success = True, formal_arguments "N: Long", actual_arguments "N" and
\* input_part "var N: Long", a newline, "N = sc.nextLong()".
C7_Scenario1AsStated ==
    (pc = "returned" /\ format = Scenario1) =>
        /\ DOMAIN result = {"formal_arguments", "actual_arguments", "input_part", "prediction_success"}
        /\ result.prediction_success
        /\ result.formal_arguments = <<"N", ": ", "Long">>
        /\ result.actual_arguments = <<"N">>
        /\ result.input_part = <<"var ", "N", ": ", "Long", "\n", "N", " = ", "sc.nextLong()">>

\* C7 amended: as stated, except that in input_part the newline is followed by one
\* configured indentation unit, indent(1), before "N = sc.nextLong()".
C7_Scenario1 ==
    (format = Scenario1) =>
        /\ pc # "raised"
        /\ pc = "returned" =>
              /\ DOMAIN result = {"formal_arguments", "actual_arguments", "input_part", "prediction_success"}
              /\ result.prediction_success
              /\ result.formal_arguments = <<"N", ": ", "Long">>
              /\ result.actual_arguments = <<"N">>
              /\ result.input_part =
                    <<"var ", "N", ": ", "Long", "\n">> \o indent(1) \o <<"N", " = ", "sc.nextLong()">>

C7_Witness ==
    /\ pc = "returned"
    /\ format = Scenario1
    /\ config.indent_width = 2

\* the least and the greatest of a non-empty set of numbers
Least(S) == CHOOSE k \in S : \A j \in S : k <= j

Greatest(S) == CHOOSE k \in S : \A j \in S : k >= j

IsLoopHeaderOverI(line) == IsLoopHeader(line) /\ LoopVariable(line) = "i"

IsLoopHeaderOverJ(line) == IsLoopHeader(line) /\ LoopVariable(line) = "j"

\* C4: the lines rendered for a TwoDimensional Pattern hold exactly one loop header
\* over i, bounded by the first index length, and exactly one over j, bounded by the
\* second; the j header comes after the i header, one indentation unit deeper; every
\* read-assignment is two units deeper than the i header and reads name[i][j]; the
\* closing delimiter of the j loop comes before that of the i loop, which is the
\* last line.
C4_TwoDimensionalNesting ==
    \A p \in 1..Len(rendered) :
        LET pattern == format.sequence[p]
            lines == rendered[p]
            his == Places(lines, IsLoopHeaderOverI)
            hjs == Places(lines, IsLoopHeaderOverJ)
            reads == Places(lines, IsReadStatement)
            closes == Places(lines, IsClose)
        IN  pattern.kind = "TwoDimensionalPattern" =>
              /\ Cardinality(his) = 1
              /\ Cardinality(hjs) = 1
              /\ Cardinality(closes) = 2
              /\ LET hi == Least(his)
                     hj == Least(hjs)
                     cj == Least(closes)
                     ci == Greatest(closes)
                 IN  /\ hi < hj
                     /\ LoopLength(lines[hi]) = get_length(pattern_all_vars(pattern)[1].first_index)
                     /\ LoopLength(lines[hj]) = get_length(pattern_all_vars(pattern)[1].second_index)
                     /\ Indentation(lines[hj]) = indent(1) \o Indentation(lines[hi])
                     /\ reads # {}
                     /\ \A r \in reads :
                           /\ hj < r
                           /\ r < cj
                           /\ Indentation(lines[r]) = indent(2) \o Indentation(lines[hi])
                           /\ \E v \in 1..Len(pattern_all_vars(pattern)) : \E call \in ReadCalls :
                                 Stripped(lines[r]) =
                                     <<pattern_all_vars(pattern)[v].name,
                                       "[(", "i", ").toInt()]", "[(", "j", ").toInt()]",
                                       " = ", call>>
                     /\ cj < ci
                     /\ Indentation(lines[cj]) = Indentation(lines[hj])
                     /\ Indentation(lines[ci]) = Indentation(lines[hi])
                     /\ ci = Len(lines)

C4_Witness ==
    \E p \in 1..Len(rendered) :
        /\ format.sequence[p].kind = "TwoDimensionalPattern"
        /\ Len(pattern_all_vars(format.sequence[p])) = 2
        /\ config.indent_width = 2

\* the lines of a text: its pieces between newlines, every piece after the first
\* without the n characters that follow the newline
TextLines(text, n) ==
    LET pieces == Split(text, "\n")
    IN  IF text = <<>> THEN <<>>
        ELSE [k \in 1..Len(pieces) |->
                IF k = 1 THEN pieces[k] ELSE SubSeq(pieces[k], n + 1, Len(pieces[k]))]

\* C8: for a present Format, input_part is the lines rendered for the Patterns, in
\* Format order, with exactly one separator between two consecutive lines, the
\* separator being a newline followed by indent(1): none before the first line or
\* after the last, so L > 0 lines give L - 1 separators, and every line keeps the
\* indentation it was rendered with.
C8_InputPartJoinsLines ==
    ReturnedPresent =>
        LET lines == Concat(rendered)
            pieces == Split(result.input_part, "\n")
        IN  /\ Len(rendered) = Len(format.sequence)
            /\ lines = <<>> => result.input_part = <<>>
            /\ lines # <<>> =>
                  /\ Len(pieces) = Len(lines)
                  /\ Cardinality({k \in 1..Len(result.input_part) : result.input_part[k] = "\n"})
                        = Len(lines) - 1
                  /\ pieces[1] = lines[1]
                  /\ \A k \in 2..Len(lines) : pieces[k] = indent(1) \o lines[k]

C8_Witness ==
    /\ ReturnedPresent
    /\ Len(rendered) = 2
    /\ format.sequence[1].kind = "ParallelPattern"
    /\ format.sequence[2].kind = "SingularPattern"
    /\ config.indent_type = "tab"

\* the container sizes of a declaration, outermost first
ContainerSizes(line) ==
    [k \in 1..Len(SelectSeq(line, LAMBDA t : t = "Array((")) |->
        line[1 + CHOOSE at \in 1..Len(line) :
                    /\ line[at] = "Array(("
                    /\ Cardinality({j \in 1..at : line[j] = "Array(("}) = k]]

\* the value every element of a declared container is initialised to
ElementValue(line) == line[1 + Greatest({k \in 1..Len(line) : line[k] = "{"})]

\* the default value of a type
DefaultLiteral(type_) ==
    CASE type_ = "float" -> "0.0"
      [] type_ = "int" -> "0L"
      [] type_ = "str" -> "\"\""

\* C9: for every variable of a Parallel or TwoDimensional Pattern, the container
\* sizes of its declaration and the iteration counts of the loops indexing it are
\* the same length expressions axis by axis: the outer container has the first
\* index's length, which the i loop runs to; with two dimensions the inner
\* containers have the second index's length, which the j loop runs to; and every
\* element starts as the default value of the type.
C9_SizesMatchLoops ==
    \A p \in 1..Len(rendered) :
        LET pattern == format.sequence[p]
            lines == rendered[p]
            two == pattern.kind = "TwoDimensionalPattern"
            his == Places(lines, IsLoopHeaderOverI)
            hjs == Places(lines, IsLoopHeaderOverJ)
        IN  pattern.kind \in {"ParallelPattern", "TwoDimensionalPattern"} =>
              /\ Cardinality(his) = 1
              /\ Cardinality(hjs) = (IF two THEN 1 ELSE 0)
              /\ \A k \in 1..Len(pattern_all_vars(pattern)) :
                    LET var == pattern_all_vars(pattern)[k]
                        sizes == ContainerSizes(lines[k])
                    IN  /\ IsDeclaration(lines[k])
                        /\ DeclaredName(lines[k]) = var.name
                        /\ Len(sizes) = (IF two THEN 2 ELSE 1)
                        /\ sizes[1] = get_length(var.first_index)
                        /\ sizes[1] = LoopLength(lines[Least(his)])
                        /\ two => /\ sizes[2] = get_length(var.second_index)
                                  /\ sizes[2] = LoopLength(lines[Least(hjs)])
                        /\ ElementValue(lines[k]) = DefaultLiteral(var.type)

C9_Witness ==
    /\ Len(rendered) = 2
    /\ format.sequence[1].kind = "ParallelPattern"
    /\ format.sequence[2].kind = "TwoDimensionalPattern"
    /\ Len(pattern_all_vars(format.sequence[2])) = 2
    /\ pattern_all_vars(format.sequence[2])[1].type # pattern_all_vars(format.sequence[2])[2].type

RECURSIVE TruePlaces(_, _)
\* the places from k on that hold TRUE, in order
TruePlaces(flags, k) ==
    IF k > Len(flags) THEN <<>>
    ELSE (IF flags[k] THEN <<k>> ELSE <<>>) \o TruePlaces(flags, k + 1)

\* the places of a sequence whose element passes Test, in order
PlacesInOrder(seq, Test(_)) == TruePlaces([k \in 1..Len(seq) |-> Test(seq[k])], 1)

\* the names of variables, in order
Names(vs) == [k \in 1..Len(vs) |-> vs[k].name]

\* how many lines of input_part come before those of the p-th Pattern
Offset(p) == Sum([q \in 1..(p - 1) |-> Len(rendered[q])])

\* how many variables come before those of the p-th Pattern
VarOffset(p) == Sum([q \in 1..(p - 1) |-> Len(pattern_all_vars(format.sequence[q]))])

\* the places in all_vars() of the variables of the Patterns the generator knows
KnownVariables ==
    Concat([p \in 1..Len(format.sequence) |->
              IF format.sequence[p].kind \in KnownKinds
              THEN [k \in 1..Len(pattern_all_vars(format.sequence[p])) |-> VarOffset(p) + k]
              ELSE <<>>])

\* C10: the lines of input_part follow Format order: the lines of Pattern p come
\* before those of Pattern p + 1; within a Pattern the declarations come before
\* the first read-assignment or loop header; declarations and read-assignments
\* are each in all_vars() order; so a variable's declaration comes before its own
\* read-assignment and before that of any later variable.
C10_LinesFollowFormatOrder ==
    ReturnedPresent =>
        LET text == TextLines(result.input_part, Len(indent(1)))
            decls == PlacesInOrder(text, IsDeclaration)
            reads == PlacesInOrder(text, IsReadStatement)
            heads == PlacesInOrder(text, IsLoopHeader)
            vs == all_vars(format)
            known == KnownVariables
        IN  /\ Len(text) = Offset(Len(format.sequence) + 1)
            \* declarations and read-assignments in all_vars() order
            /\ Len(decls) = Len(vs)
            /\ \A v \in 1..Len(vs) : DeclaredName(text[decls[v]]) = vs[v].name
            /\ Len(reads) = Len(known)
            /\ \A m \in 1..Len(known) :
                  /\ ReadName(text[reads[m]]) = vs[known[m]].name
                  \* a declaration before the variable's own read, hence any later one
                  /\ decls[known[m]] < reads[m]
            \* Pattern by Pattern: the declarations of Pattern p, then its other lines
            /\ \A p \in 1..Len(format.sequence) :
                  LET n == Len(pattern_all_vars(format.sequence[p]))
                  IN  /\ \A k \in 1..n : decls[VarOffset(p) + k] = Offset(p) + k
                      /\ \A k \in 1..Len(reads) :
                            reads[k] > Offset(p) => reads[k] > Offset(p) + n
                      /\ \A k \in 1..Len(heads) :
                            heads[k] > Offset(p) => heads[k] > Offset(p) + n

C10_Witness ==
    /\ ReturnedPresent
    /\ Len(format.sequence) = 2
    /\ format.sequence[1].kind = "TwoDimensionalPattern"
    /\ Len(pattern_all_vars(format.sequence[1])) = 2
    /\ format.sequence[2].kind = "SingularPattern"
    /\ config.indent_width = 2

====
